---- MODULE Spec2Model ----
(***************************************************************************)
(* Model of src/main.py: the POST /bfhl handler, which classifies every    *)
(* element of request.data by the shape of str(item), partitions the       *)
(* strings into four lists, sums the numbers and derives concat_string.    *)
(*                                                                         *)
(* A Python str is a sequence of characters; a character is written as a   *)
(* one-character TLA+ string, except U+0663 (ARABIC-INDIC DIGIT THREE),    *)
(* which is named by its code point.                                       *)
(***************************************************************************)
EXTENDS Integers, Sequences, FiniteSets, TLC

VARIABLES
    frames,   \* request id -> the locals of that invocation of bfhl_post
    config,   \* the module globals FULL_NAME, EMAIL, ROLL_NUMBER
    arg,      \* argument of a direct call of classify_item / build_concat_string
    ret       \* what that call returned

vars == <<frames, config, arg, ret>>

----------------------------------------------------------------------------
(* Bounds *)

MaxItems == 2        \* len(request.data) of a single request
MaxLen == 3          \* length of a string handed to classify_item directly
MaxAlphaItems == 3   \* len(alphabet_items) handed to build_concat_string directly
MaxAlphaLen == 2     \* length of one such token
MaxConcItems == 2    \* len(request.data) of each of two concurrent requests

----------------------------------------------------------------------------
(* Characters *)

LowerCase == <<"a","b","c","d","e","f","g","h","i","j","k","l","m",
               "n","o","p","q","r","s","t","u","v","w","x","y","z">>
UpperCase == <<"A","B","C","D","E","F","G","H","I","J","K","L","M",
               "N","O","P","Q","R","S","T","U","V","W","X","Y","Z">>
AsciiDigits == <<"0","1","2","3","4","5","6","7","8","9">>

Range(f) == {f[k] : k \in DOMAIN f}

IndexOf(seq, x) == CHOOSE k \in DOMAIN seq : seq[k] = x

IsAsciiLower(ch) == \E k \in 1..26 : LowerCase[k] = ch
IsAsciiUpper(ch) == \E k \in 1..26 : UpperCase[k] = ch
IsAsciiDigit(ch) == \E k \in 1..10 : AsciiDigits[k] = ch

\* What the regex class \d matches in a str pattern: every Unicode decimal
\* digit (category Nd), of which the model holds 0-9 and U+0663.
IsDecimalDigit(ch) == IsAsciiDigit(ch) \/ ch = "U+0663"

\* What the regex class [A-Za-z] matches.
IsAsciiLetter(ch) == IsAsciiLower(ch) \/ IsAsciiUpper(ch)

DigitValue(ch) == IF ch = "U+0663" THEN 3 ELSE IndexOf(AsciiDigits, ch) - 1

\* str.isspace for the characters of the model.
IsSpace(ch) == ch \in {" ", "\n"}

\* ch.upper() and ch.lower() of one character.
upper(ch) == IF IsAsciiLower(ch) THEN UpperCase[IndexOf(LowerCase, ch)] ELSE ch
lower(ch) == IF IsAsciiUpper(ch) THEN LowerCase[IndexOf(UpperCase, ch)] ELSE ch

\* s.upper() of a string.
str_upper(s) == [k \in 1..Len(s) |-> upper(s[k])]

----------------------------------------------------------------------------
(* The regular expressions *)

\* Where $ can match in s: at the end, and just before a newline that ends s.
DollarPositions(s) ==
    {Len(s)} \cup (IF Len(s) > 0 /\ s[Len(s)] = "\n" THEN {Len(s) - 1} ELSE {})

\* INTEGER_RE.match(s) is not None, for INTEGER_RE = ^-?\d+$
INTEGER_RE(s) ==
    \E e \in DollarPositions(s) :
        LET from == IF e >= 1 /\ s[1] = "-" THEN 2 ELSE 1
        IN  /\ e >= from
            /\ \A k \in from..e : IsDecimalDigit(s[k])

\* ALPHA_RE.match(s) is not None, for ALPHA_RE = ^[A-Za-z]+$
ALPHA_RE(s) ==
    \E e \in DollarPositions(s) :
        /\ e >= 1
        /\ \A k \in 1..e : IsAsciiLetter(s[k])

----------------------------------------------------------------------------
(* The builtins int() and str() as bfhl_post uses them *)

\* sys.int_info.default_max_str_digits: int(s) and str(n) raise ValueError
\* when more decimal digits than this are involved.
MAX_STR_DIGITS == 4300

Raised == [raised |-> TRUE, value |-> 0]

\* s.strip(): s without its leading and trailing whitespace.
StripSpace(s) ==
    IF \A k \in 1..Len(s) : IsSpace(s[k]) THEN <<>>
    ELSE LET first == CHOOSE k \in 1..Len(s) :
                          ~IsSpace(s[k]) /\ \A j \in 1..(k - 1) : IsSpace(s[j])
             last == CHOOSE k \in 1..Len(s) :
                          ~IsSpace(s[k]) /\ \A j \in (k + 1)..Len(s) : IsSpace(s[j])
         IN  SubSeq(s, first, last)

RECURSIVE DigitsValue(_)
DigitsValue(ds) ==
    IF ds = <<>> THEN 0
    ELSE 10 * DigitsValue(SubSeq(ds, 1, Len(ds) - 1)) + DigitValue(ds[Len(ds)])

\* int(s) for a str s: surrounding whitespace is stripped, then an optional
\* sign and decimal digits are read; anything else, and more than
\* MAX_STR_DIGITS digits, raises ValueError.
int(s) ==
    LET t == StripSpace(s)
        signed == Len(t) >= 1 /\ t[1] \in {"-", "+"}
        ds == IF signed THEN SubSeq(t, 2, Len(t)) ELSE t
    IN  IF Len(ds) > MAX_STR_DIGITS THEN Raised
        ELSE IF ds = <<>> \/ \E k \in 1..Len(ds) : ~IsDecimalDigit(ds[k]) THEN Raised
        ELSE [raised |-> FALSE,
              value |-> IF signed /\ t[1] = "-" THEN 0 - DigitsValue(ds)
                        ELSE DigitsValue(ds)]

RECURSIVE NatToStr(_)
NatToStr(n) ==
    IF n < 10 THEN <<AsciiDigits[n + 1]>>
    ELSE NatToStr(n \div 10) \o <<AsciiDigits[(n % 10) + 1]>>

\* str(n) of an int n.
IntToStr(n) == IF n < 0 THEN <<"-">> \o NatToStr(0 - n) ELSE NatToStr(n)

RECURSIVE Pow10(_)
Pow10(e) == IF e = 0 THEN 1 ELSE 10 * Pow10(e - 1)

RECURSIVE ZeroPad(_, _)
ZeroPad(s, width) == IF Len(s) >= width THEN s ELSE ZeroPad(<<"0">> \o s, width)

\* str(x) of a float x = n / 10^e whose shortest repr is plain decimal text.
FloatToStr(n, e) ==
    LET a == IF n < 0 THEN 0 - n ELSE n
    IN  (IF n < 0 THEN <<"-">> ELSE <<>>)
        \o NatToStr(a \div Pow10(e)) \o <<".">>
        \o ZeroPad(NatToStr(a % Pow10(e)), e)

RECURSIVE JoinInts(_)
JoinInts(xs) ==
    IF xs = <<>> THEN <<>>
    ELSE IF Len(xs) = 1 THEN IntToStr(xs[1])
    ELSE IntToStr(xs[1]) \o <<",", " ">> \o JoinInts(Tail(xs))

----------------------------------------------------------------------------
(* The elements of request.data: decoded JSON values (data: List[Any]) *)

StrItem(s) == [type |-> "str", s |-> s, n |-> 0, e |-> 0, xs |-> <<>>]
IntItem(n) == [type |-> "int", s |-> <<>>, n |-> n, e |-> 0, xs |-> <<>>]
BoolItem(b) == [type |-> "bool", s |-> <<>>, n |-> IF b THEN 1 ELSE 0, e |-> 0, xs |-> <<>>]
NoneItem == [type |-> "null", s |-> <<>>, n |-> 0, e |-> 0, xs |-> <<>>]
FloatItem(n, e) == [type |-> "float", s |-> <<>>, n |-> n, e |-> e, xs |-> <<>>]
ListItem(xs) == [type |-> "list", s |-> <<>>, n |-> 0, e |-> 0, xs |-> xs]
\* An int of `digits` decimal digits, too large for the model to hold its value.
BigIntItem(digits) == [type |-> "bigint", s |-> <<>>, n |-> digits, e |-> 0, xs |-> <<>>]

\* Mutant: the JSON spelling of booleans and null instead of Python's.
str_json(item) ==
    CASE item.type = "str" -> [raised |-> FALSE, s |-> item.s]
      [] item.type = "int" -> [raised |-> FALSE, s |-> IntToStr(item.n)]
      [] item.type = "bool" ->
            [raised |-> FALSE,
             s |-> IF item.n = 1 THEN <<"t","r","u","e">> ELSE <<"f","a","l","s","e">>]
      [] item.type = "null" -> [raised |-> FALSE, s |-> <<"n","u","l","l">>]
      [] item.type = "float" -> [raised |-> FALSE, s |-> FloatToStr(item.n, item.e)]
      [] item.type = "list" ->
            [raised |-> FALSE, s |-> <<"[">> \o JoinInts(item.xs) \o <<"]">>]
      [] item.type = "bigint" ->
            IF item.n > MAX_STR_DIGITS THEN [raised |-> TRUE, s |-> <<>>]
            ELSE [raised |-> FALSE, s |-> [k \in 1..item.n |-> "9"]]

\* str(item): [raised, s].
str(item) ==
    CASE item.type = "str" -> [raised |-> FALSE, s |-> item.s]
      [] item.type = "int" -> [raised |-> FALSE, s |-> IntToStr(item.n)]
      [] item.type = "bool" ->
            [raised |-> FALSE,
             s |-> IF item.n = 1 THEN <<"T","r","u","e">> ELSE <<"F","a","l","s","e">>]
      [] item.type = "null" -> [raised |-> FALSE, s |-> <<"N","o","n","e">>]
      [] item.type = "float" -> [raised |-> FALSE, s |-> FloatToStr(item.n, item.e)]
      [] item.type = "list" ->
            [raised |-> FALSE, s |-> <<"[">> \o JoinInts(item.xs) \o <<"]">>]
      [] item.type = "bigint" ->
            IF item.n > MAX_STR_DIGITS THEN [raised |-> TRUE, s |-> <<>>]
            ELSE [raised |-> FALSE, s |-> [k \in 1..item.n |-> "9"]]

----------------------------------------------------------------------------
(* classify_item and build_concat_string *)

\* classify_item(item): [raised, category, processed, original]; raised when
\* str(item) or int(s) raises.
classify_item(item) ==
    LET c == str(item)
        s == c.s
    IN  IF c.raised
        THEN [raised |-> TRUE, category |-> "", processed |-> 0, original |-> <<>>]
        ELSE IF INTEGER_RE(s)
        THEN LET v == int(s)
             IN  IF v.raised
                 THEN [raised |-> TRUE, category |-> "", processed |-> 0, original |-> <<>>]
                 ELSE [raised |-> FALSE, category |-> "number",
                       processed |-> v.value, original |-> s]
        ELSE IF ALPHA_RE(s)
        THEN [raised |-> FALSE, category |-> "alphabet", processed |-> s, original |-> s]
        ELSE [raised |-> FALSE, category |-> "special", processed |-> s, original |-> s]

Reversed(s) == [k \in 1..Len(s) |-> s[Len(s) + 1 - k]]

\* Mutant: the tokens are walked back to front, their characters front to back.
RECURSIVE CollectChars_TokensOnly(_)
CollectChars_TokensOnly(its) ==
    IF its = <<>> THEN <<>>
    ELSE its[Len(its)] \o CollectChars_TokensOnly(SubSeq(its, 1, Len(its) - 1))

\* The loop of build_concat_string: chars after the tokens its[1..n] have been
\* visited in reversed(alphabet_items) order.
RECURSIVE CollectChars(_)
CollectChars(its) ==
    IF its = <<>> THEN <<>>
    ELSE Reversed(its[Len(its)]) \o CollectChars(SubSeq(its, 1, Len(its) - 1))

\* enumerate(chars) counts from 0: even index upper, odd index lower.
build_concat_string(alphabet_items) ==
    LET chars == CollectChars(alphabet_items)
    IN  [k \in 1..Len(chars) |->
            IF (k - 1) % 2 = 0 THEN upper(chars[k]) ELSE lower(chars[k])]

----------------------------------------------------------------------------
(* Configuration and generate_user_id *)

FULL_NAME == <<"A","b","h","i","s","h","e","k"," ","P","a","t","i","l">>
EMAIL == "112216001@ece.iiitp.ac.in"
ROLL_NUMBER == "112216001"
DEBUG == FALSE

Config == [FULL_NAME |-> FULL_NAME, EMAIL |-> EMAIL,
           ROLL_NUMBER |-> ROLL_NUMBER, DEBUG |-> DEBUG]

\* datetime.now().strftime("%d%m%Y") on the days the model draws from.
Dates == {<<"0","4","1","1","2","0","2","6">>, <<"3","1","1","2","1","9","9","9">>}

\* s.split(): the maximal runs of non-whitespace characters of s.
RECURSIVE Split(_, _)
Split(s, word) ==
    IF s = <<>> THEN (IF word = <<>> THEN <<>> ELSE <<word>>)
    ELSE IF IsSpace(Head(s))
         THEN (IF word = <<>> THEN <<>> ELSE <<word>>) \o Split(Tail(s), <<>>)
         ELSE Split(Tail(s), Append(word, Head(s)))

\* "_".join(words)
RECURSIVE JoinUnderscore(_)
JoinUnderscore(words) ==
    IF words = <<>> THEN <<>>
    ELSE IF Len(words) = 1 THEN words[1]
    ELSE words[1] \o <<"_">> \o JoinUnderscore(Tail(words))

generate_user_id(full_name, date_suffix) ==
    LET lowered == [k \in 1..Len(full_name) |-> lower(full_name[k])]
        name_part == JoinUnderscore(Split(lowered, <<>>))
    IN  name_part \o <<"_">> \o date_suffix

----------------------------------------------------------------------------
(* bfhl_post: one frame per invocation *)

NoResp == [status_code |-> 0]

\* The locals of bfhl_post when the for loop is entered.
NewFrame(data) ==
    [data |-> data, pc |-> "loop", i |-> 1,
     odd_numbers |-> <<>>, even_numbers |-> <<>>, alphabets |-> <<>>,
     special_characters |-> <<>>, alphabet_items |-> <<>>, total_sum |-> 0,
     resp |-> NoResp]

\* Mutant: a remainder that takes the sign of the dividend, tested against 1.
is_even_truncating(processed) ==
    LET rem == IF processed < 0 THEN 0 - ((0 - processed) % 2) ELSE processed % 2
    IN  rem # 1

\* processed % 2 == 0 (Python's % takes the sign of the divisor, as TLA+'s does).
is_even(processed) == processed % 2 = 0

\* Mutant: a negative number is left out of the sum.
OnNumber_SkipNegative(f, c) ==
    [f EXCEPT !.total_sum = IF c.processed < 0 THEN @ ELSE @ + c.processed,
              !.even_numbers = IF is_even(c.processed) THEN Append(@, c.original) ELSE @,
              !.odd_numbers = IF is_even(c.processed) THEN @ ELSE Append(@, c.original)]

\* Mutant: the parsed integer is stored re-serialised instead of the token.
OnNumber_Reserialised(f, c) ==
    [f EXCEPT !.total_sum = @ + c.processed,
              !.even_numbers = IF is_even(c.processed)
                               THEN Append(@, IntToStr(c.processed)) ELSE @,
              !.odd_numbers = IF is_even(c.processed)
                              THEN @ ELSE Append(@, IntToStr(c.processed))]

\* if category == "number": the sum and the parity branch.
OnNumber(f, c) ==
    [f EXCEPT !.total_sum = @ + c.processed,
              !.even_numbers = IF is_even(c.processed) THEN Append(@, c.original) ELSE @,
              !.odd_numbers = IF is_even(c.processed) THEN @ ELSE Append(@, c.original)]

\* elif category == "alphabet"
OnAlphabet(f, c) ==
    [f EXCEPT !.alphabets = Append(@, str_upper(c.original)),
              !.alphabet_items = Append(@, c.original)]

\* else
OnSpecial(f, c) == [f EXCEPT !.special_characters = Append(@, c.original)]

\* Mutant: the except clause only logs, and the item is dropped.
OnException_Drop(f, item) == f

\* except Exception: special_characters.append(str(item)); a str(item) that
\* raises here leaves the handler.
OnException(f, item) ==
    LET b == str(item)
    IN  IF b.raised THEN [f EXCEPT !.pc = "raised"]
        ELSE [f EXCEPT !.special_characters = Append(@, b.s)]

\* The try block and its except clause, for item with c = classify_item(item).
TryItem(f, item, c) ==
    IF c.raised THEN OnException(f, item)
    ELSE IF c.category = "number" THEN OnNumber(f, c)
    ELSE IF c.category = "alphabet" THEN OnAlphabet(f, c)
    ELSE OnSpecial(f, c)

\* The for loop moves on to the next item unless an exception left the handler.
Advance(g) == IF g.pc = "raised" THEN g ELSE [g EXCEPT !.i = @ + 1]

\* One pass of the for loop over request.data, for the item f.data[f.i].
LoopBody(f) == Advance(TryItem(f, f.data[f.i], classify_item(f.data[f.i])))

\* After the loop: the response of bfhl_post.  The sums of the model stay far
\* below MAX_STR_DIGITS digits, where str(total_sum) would raise.
Response(f, cfg, date_suffix) ==
    [status_code |-> 200,
     is_success |-> TRUE,
     user_id |-> generate_user_id(cfg.FULL_NAME, date_suffix),
     email |-> cfg.EMAIL,
     roll_number |-> cfg.ROLL_NUMBER,
     odd_numbers |-> f.odd_numbers,
     even_numbers |-> f.even_numbers,
     alphabets |-> f.alphabets,
     special_characters |-> f.special_characters,
     sum |-> IntToStr(f.total_sum),
     concat_string |-> build_concat_string(f.alphabet_items)]

ErrorResponse(cfg) ==
    IF cfg.DEBUG
    THEN [status_code |-> 500, is_success |-> FALSE,
          error |-> "An unexpected error occurred", detail |-> "str(exc)"]
    ELSE [status_code |-> 500, is_success |-> FALSE,
          error |-> "An unexpected error occurred"]

Requests == DOMAIN frames

\* Mutant: total_sum is a module global, shared by every invocation.
Iterate_SharedSum(r) ==
    /\ frames[r].pc = "loop"
    /\ frames[r].i <= Len(frames[r].data)
    /\ frames' = [q \in DOMAIN frames |->
                    IF q = r THEN LoopBody(frames[r])
                    ELSE [frames[q] EXCEPT !.total_sum = LoopBody(frames[r]).total_sum]]
    /\ UNCHANGED <<config, arg, ret>>

Iterate(r) ==
    /\ frames[r].pc = "loop"
    /\ frames[r].i <= Len(frames[r].data)
    /\ frames' = [frames EXCEPT ![r] = LoopBody(@)]
    /\ UNCHANGED <<config, arg, ret>>

Return(r) ==
    /\ frames[r].pc = "loop"
    /\ frames[r].i > Len(frames[r].data)
    /\ \E date_suffix \in Dates :
          frames' = [frames EXCEPT ![r] =
                       [frames[r] EXCEPT !.pc = "done",
                                         !.resp = Response(frames[r], config, date_suffix)]]
    /\ UNCHANGED <<config, arg, ret>>

global_exception_handler(r) ==
    /\ frames[r].pc = "raised"
    /\ frames' = [frames EXCEPT ![r] =
                    [frames[r] EXCEPT !.pc = "done", !.resp = ErrorResponse(config)]]
    /\ UNCHANGED <<config, arg, ret>>

----------------------------------------------------------------------------
(* Inputs *)

\* A str of MAX_STR_DIGITS + 1 digits: INTEGER_RE matches it and int() refuses it.
RECURSIVE Repeat(_, _)
Repeat(ch, n) ==
    IF n = 0 THEN <<>>
    ELSE IF n % 2 = 0 THEN LET half == Repeat(ch, n \div 2) IN half \o half
    ELSE <<ch>> \o Repeat(ch, n - 1)

BigDigits == Repeat("1", MAX_STR_DIGITS + 1)

\* Decoded JSON values: what request.data of a POST /bfhl holds.
DataItems ==
    { StrItem(<<"7">>), StrItem(<<"-","4">>), StrItem(<<"-","0">>), IntItem(-3),
      StrItem(<<"B","c">>), BoolItem(TRUE), BoolItem(FALSE), NoneItem,
      FloatItem(314, 2), StrItem(<<"2","\n">>), StrItem(<<"b","\n">>),
      StrItem(BigDigits) }

\* Values a direct call of bfhl_post can be given (data: List[Any]): the int
\* is one json.loads refuses and str() cannot render.
AnyItems == { StrItem(<<"7">>), StrItem(<<"B","c">>), FloatItem(314, 2),
              StrItem(BigDigits), BigIntItem(MAX_STR_DIGITS + 1) }

ConcItems == { StrItem(<<"7">>), IntItem(-4), StrItem(<<"B","c">>),
               BigIntItem(MAX_STR_DIGITS + 1) }

\* Strings handed to classify_item directly.
ClassifyChars == {"1", "2", "-", "+", "a", "B", "\n", " ", ".", "U+0663"}

ClassifyItems ==
    {StrItem(s) : s \in UNION {[1..k -> ClassifyChars] : k \in 0..MaxLen}}
    \cup {IntItem(n) : n \in -12..12}
    \cup {BoolItem(TRUE), BoolItem(FALSE), NoneItem, FloatItem(314, 2),
          FloatItem(10, 1), FloatItem(-25, 1), FloatItem(5, 2),
          ListItem(<<>>), ListItem(<<1, 2>>),
          StrItem(BigDigits), StrItem(<<"-">> \o BigDigits),
          BigIntItem(MAX_STR_DIGITS + 1)}

\* Tokens ALPHA_RE lets into alphabet_items.
AlphaTokens ==
    UNION {[1..k -> {"a", "B"}] : k \in 1..MaxAlphaLen}
    \cup {<<"T","r","u","e">>, <<"b","\n">>}

SeqsUpTo(S, n) == UNION {[1..k -> S] : k \in 0..n}

NoCall == [called |-> FALSE]

\* One POST /bfhl request.
Init ==
    /\ \E data \in SeqsUpTo(DataItems, MaxItems) : frames = <<NewFrame(data)>>
    /\ config = Config
    /\ arg = <<>>
    /\ ret = NoCall

\* No decoded JSON value of the model makes an exception leave bfhl_post, so
\* global_exception_handler has no step here (C1_BucketLengthsAddUp checks
\* that pc is never "raised").
Next ==
    \/ \E r \in Requests : Iterate(r)
    \/ \E r \in Requests : Return(r)

Spec == Init /\ [][Next]_vars

\* One direct call of bfhl_post with any list.
InitAny ==
    /\ \E data \in SeqsUpTo(AnyItems, MaxItems) : frames = <<NewFrame(data)>>
    /\ config = Config
    /\ arg = <<>>
    /\ ret = NoCall

NextAny ==
    \/ \E r \in Requests : Iterate(r)
    \/ \E r \in Requests : Return(r)
    \/ \E r \in Requests : global_exception_handler(r)

SpecAny == InitAny /\ [][NextAny]_vars

\* Two invocations whose loop passes interleave.
InitConc ==
    /\ frames \in [{1, 2} -> {NewFrame(data) : data \in SeqsUpTo(ConcItems, MaxConcItems)}]
    /\ config = Config
    /\ arg = <<>>
    /\ ret = NoCall

SpecConc == InitConc /\ [][NextAny]_vars

\* A direct call of classify_item.
InitClassify ==
    /\ frames = <<>>
    /\ config = Config
    /\ arg \in ClassifyItems
    /\ ret = NoCall

CallClassify ==
    /\ ~ret.called
    /\ ret' = [called |-> TRUE, result |-> classify_item(arg)]
    /\ UNCHANGED <<frames, config, arg>>

SpecClassify == InitClassify /\ [][CallClassify]_vars

\* A direct call of build_concat_string.
InitConcat ==
    /\ frames = <<>>
    /\ config = Config
    /\ arg \in SeqsUpTo(AlphaTokens, MaxAlphaItems)
    /\ ret = NoCall

CallConcat ==
    /\ ~ret.called
    /\ ret' = [called |-> TRUE, result |-> build_concat_string(arg)]
    /\ UNCHANGED <<frames, config, arg>>

SpecConcat == InitConcat /\ [][CallConcat]_vars

----------------------------------------------------------------------------
(* Properties.  The definitions below restate the specification; they are   *)
(* the yardstick the model of the code is checked against.                  *)

Total(f) ==
    Len(f.odd_numbers) + Len(f.even_numbers) + Len(f.alphabets)
    + Len(f.special_characters)

InSeq(x, seq) == \E k \in 1..Len(seq) : seq[k] = x

\* The canonical string of an item that has one.
Canon(item) == str(item).s

\* ^-?[0-9]+$ read as the specification words it: an optional leading minus,
\* then one or more of the ASCII digits 0-9, and nothing else.
IsPlainInteger(s) ==
    LET from == IF Len(s) >= 1 /\ s[1] = "-" THEN 2 ELSE 1
    IN  /\ Len(s) >= from
        /\ \A k \in from..Len(s) :
              s[k] \in {"0","1","2","3","4","5","6","7","8","9"}

Punctuation == {"$", ",", "[", "]", "+"}

\* Empty, or holding whitespace, punctuation, a decimal point, or letters
\* together with digits.
IsSpecialShape(s) ==
    \/ s = <<>>
    \/ \E k \in 1..Len(s) : s[k] \in {" ", "\n"} \cup Punctuation \cup {"."}
    \/ /\ \E k \in 1..Len(s) : IsAsciiLetter(s[k])
       /\ \E k \in 1..Len(s) : IsAsciiDigit(s[k])

\* n is a multiple of two: its non-negative remainder modulo 2 is 0.
IsMultipleOfTwo(n) == n = 2 * (n \div 2)

RECURSIVE SumOfParsed(_)
SumOfParsed(tokens) ==
    IF tokens = <<>> THEN 0
    ELSE int(Head(tokens)).value + SumOfParsed(Tail(tokens))

\* A decimal numeral in the form str() of an int gives it.
IsDecimalNumeral(s) ==
    LET from == IF Len(s) >= 1 /\ s[1] = "-" THEN 2 ELSE 1
    IN  /\ IsPlainInteger(s)
        /\ s[from] = "0" => (Len(s) = 1)

RECURSIVE Joined(_)
Joined(tokens) == IF tokens = <<>> THEN <<>> ELSE Head(tokens) \o Joined(Tail(tokens))

\* Steps 1-3 of the concat transform: join in input order, reverse, re-case.
ReferenceConcat(tokens) ==
    LET joined == Joined(tokens)
        n == Len(joined)
    IN  [k \in 1..n |-> IF k % 2 = 1 THEN upper(joined[n + 1 - k])
                        ELSE lower(joined[n + 1 - k])]

\* The bucket an item falls in: the category classify_item gives it, a number
\* by its parity, an item that takes the exception path as special.
BucketOf(item) ==
    LET c == classify_item(item)
    IN  IF c.raised THEN "special"
        ELSE IF c.category = "number"
             THEN (IF IsMultipleOfTwo(c.processed) THEN "even" ELSE "odd")
        ELSE c.category

UppercaseAll(tokens) == [k \in 1..Len(tokens) |-> str_upper(tokens[k])]

\* The canonical strings of data[1..k] whose bucket, as buckets[k] names it,
\* is `bucket`, in input order.
RECURSIVE Subsequence(_, _, _, _)
Subsequence(data, buckets, k, bucket) ==
    IF k = 0 THEN <<>>
    ELSE IF buckets[k] = bucket
         THEN Append(Subsequence(data, buckets, k - 1, bucket), Canon(data[k]))
         ELSE Subsequence(data, buckets, k - 1, bucket)

\* The lists odd, even, alphabets, special are the stable partition of data[1..k].
IsStablePartition(data, buckets, k, odd, even, alphabets, special) ==
    /\ odd = Subsequence(data, buckets, k, "odd")
    /\ even = Subsequence(data, buckets, k, "even")
    /\ special = Subsequence(data, buckets, k, "special")
    /\ alphabets = UppercaseAll(Subsequence(data, buckets, k, "alphabet"))

\* What the specification says a boolean or null is rendered as.
Literal(item) ==
    IF item.type = "null" THEN <<"N","o","n","e">>
    ELSE IF item.n = 1 THEN <<"T","r","u","e">> ELSE <<"F","a","l","s","e">>

\* The frame of a request processed alone, after k passes of the loop.
RECURSIVE AloneAfter(_, _)
AloneAfter(data, k) ==
    IF k = 0 THEN NewFrame(data)
    ELSE LET p == AloneAfter(data, k - 1)
         IN  IF p.pc = "raised" THEN p ELSE LoopBody(p)

\* The response of a request processed alone on the day date_suffix.
AloneResponse(data, date_suffix) ==
    LET f == AloneAfter(data, Len(data))
    IN  IF f.pc = "raised" THEN ErrorResponse(Config)
        ELSE Response(f, Config, date_suffix)

\* C1: after the k-th item of a POST /bfhl request has been processed the four
\* bucket lengths add up to k, no item aborts the request, and the response
\* holds as many entries as the request had items.
C1_BucketLengthsAddUp ==
    \A r \in Requests :
        LET f == frames[r]
        IN  /\ f.pc \in {"loop", "done"}
            /\ f.pc = "loop" => Total(f) = f.i - 1 /\ f.i <= Len(f.data) + 1
            /\ f.pc = "done" =>
                  /\ f.resp.status_code = 200
                  /\ Total(f) = Len(f.data)
                  /\ Len(f.resp.odd_numbers) + Len(f.resp.even_numbers)
                     + Len(f.resp.alphabets) + Len(f.resp.special_characters)
                     = Len(f.data)

\* C1 witness: a finished request of two items, one of which took the
\* exception path and one of which did not.
C1_Witness ==
    \E r \in Requests :
        /\ frames[r].pc = "done"
        /\ Len(frames[r].data) = 2
        /\ \E k \in 1..2 : classify_item(frames[r].data[k]).raised
        /\ Len(frames[r].special_characters) = 1
        /\ Len(frames[r].odd_numbers) = 1

\* C2 (as stated): classify_item returns Number exactly for the strings made
\* of an optional minus and ASCII digits.
C2_NumberIffPlainInteger ==
    (ret.called /\ ~ret.result.raised)
        => (ret.result.category = "number" <=> IsPlainInteger(ret.result.original))

\* C3 (as stated): a pass of the loop over an item whose canonical string is
\* empty or holds whitespace, punctuation, a decimal point or letters mixed
\* with digits appends that string to special_characters and changes neither
\* the other buckets nor the sum.
C3_SpecialShapesGoToSpecial ==
    [][\A r \in Requests :
          LET f == frames[r]
              g == frames'[r]
          IN  (/\ f.pc = "loop" /\ f.i <= Len(f.data) /\ g # f
               /\ ~str(f.data[f.i]).raised
               /\ IsSpecialShape(Canon(f.data[f.i])))
              => /\ g.special_characters
                      = Append(f.special_characters, Canon(f.data[f.i]))
                 /\ g.odd_numbers = f.odd_numbers
                 /\ g.even_numbers = f.even_numbers
                 /\ g.alphabets = f.alphabets
                 /\ g.total_sum = f.total_sum]_vars

\* C4: the canonical string of every processed Number item with parsed value n
\* is in even_numbers and not in odd_numbers when n is a multiple of two, and
\* in odd_numbers and not in even_numbers otherwise.
C4_ParityRouting ==
    \A r \in Requests :
        LET f == frames[r]
        IN  f.pc \in {"loop", "done"} =>
            \A k \in 1..(f.i - 1) :
                LET c == classify_item(f.data[k])
                IN  (~c.raised /\ c.category = "number") =>
                    IF IsMultipleOfTwo(c.processed)
                    THEN InSeq(c.original, f.even_numbers)
                         /\ ~InSeq(c.original, f.odd_numbers)
                    ELSE InSeq(c.original, f.odd_numbers)
                         /\ ~InSeq(c.original, f.even_numbers)

\* C4 witness: -3 went to odd_numbers and -4 to even_numbers.
C4_Witness ==
    \E r \in Requests :
        /\ frames[r].pc = "done"
        /\ frames[r].odd_numbers = << <<"-","3">> >>
        /\ frames[r].even_numbers = << <<"-","4">> >>

\* C5: the running sum is 0 before the first item and always the sum of the
\* parsed values of the strings in odd_numbers and even_numbers; the response
\* carries it as a decimal numeral, "0" when there are no numbers.
C5_SumLaw ==
    \A r \in Requests :
        LET f == frames[r]
        IN  /\ f.pc \in {"loop", "done"} =>
                f.total_sum = SumOfParsed(f.odd_numbers) + SumOfParsed(f.even_numbers)
            /\ (f.pc = "loop" /\ f.i = 1) => f.total_sum = 0
            /\ (f.pc = "done" /\ f.resp.status_code = 200) =>
                  /\ IsDecimalNumeral(f.resp.sum)
                  /\ int(f.resp.sum).value
                       = SumOfParsed(f.resp.odd_numbers) + SumOfParsed(f.resp.even_numbers)
                  /\ (f.resp.odd_numbers = <<>> /\ f.resp.even_numbers = <<>>)
                       => f.resp.sum = <<"0">>

\* C5 witness: the request [-3, "-4"] answered with sum "-7".
C5_Witness ==
    \E r \in Requests :
        /\ frames[r].pc = "done"
        /\ frames[r].data = <<IntItem(-3), StrItem(<<"-","4">>)>>
        /\ frames[r].resp.sum = <<"-","7">>

\* C6: build_concat_string returns what the three reference steps give, of
\* the tokens' total length, and the empty string for no tokens.
C6_ConcatMatchesReference ==
    ret.called =>
        /\ ret.result = ReferenceConcat(arg)
        /\ Len(ret.result) = Len(Joined(arg))
        /\ arg = <<>> => ret.result = <<>>

\* C6 witness: ["aB", "B"] gave "BbA".
C6_Witness ==
    /\ ret.called
    /\ arg = << <<"a","B">>, <<"B">> >>
    /\ ret.result = <<"B","b","A">>

\* C7: each of odd_numbers, even_numbers and special_characters is the
\* subsequence of the processed items' canonical strings that fall in it, in
\* input order and unchanged; alphabets is that subsequence uppercased.
C7_StablePartition ==
    \A r \in Requests :
        LET f == frames[r]
        IN  f.pc \in {"loop", "done"} =>
            /\ IsStablePartition(f.data, [k \in 1..(f.i - 1) |-> BucketOf(f.data[k])],
                                 f.i - 1, f.odd_numbers, f.even_numbers,
                                 f.alphabets, f.special_characters)
            /\ (f.pc = "done" /\ f.resp.status_code = 200) =>
                  /\ f.i - 1 = Len(f.data)
                  /\ f.resp.odd_numbers = f.odd_numbers
                  /\ f.resp.even_numbers = f.even_numbers
                  /\ f.resp.alphabets = f.alphabets
                  /\ f.resp.special_characters = f.special_characters

\* C7 witness: ["-4", "-0"] answered with even_numbers ["-4", "-0"].
C7_Witness ==
    \E r \in Requests :
        /\ frames[r].pc = "done"
        /\ frames[r].data = <<StrItem(<<"-","4">>), StrItem(<<"-","0">>)>>
        /\ frames[r].resp.even_numbers = << <<"-","4">>, <<"-","0">> >>

\* C8: a pass of the loop over true, false or null appends TRUE, FALSE or NONE
\* to alphabets and True, False or None to the tokens concat_string is built
\* from, and changes neither the sum nor the other buckets; the response's
\* concat_string is the re-cased reverse of those tokens.
C8_BoolNullAlphabetic ==
    [][\A r \in Requests :
          LET f == frames[r]
              g == frames'[r]
          IN  /\ (/\ f.pc = "loop" /\ f.i <= Len(f.data) /\ g # f
                  /\ f.data[f.i].type \in {"bool", "null"})
                 => /\ g.alphabets = Append(f.alphabets, str_upper(Literal(f.data[f.i])))
                    /\ g.alphabet_items = Append(f.alphabet_items, Literal(f.data[f.i]))
                    /\ g.total_sum = f.total_sum
                    /\ g.odd_numbers = f.odd_numbers
                    /\ g.even_numbers = f.even_numbers
                    /\ g.special_characters = f.special_characters
              /\ (f.pc = "loop" /\ g.pc = "done")
                 => /\ g.resp.alphabets = f.alphabets
                    /\ g.resp.concat_string = ReferenceConcat(f.alphabet_items)]_vars

\* C8 witness: [true, null] answered with TRUE and NONE, sum "0" and the
\* concat_string of "TrueNone".
C8_Witness ==
    \E r \in Requests :
        /\ frames[r].pc = "done"
        /\ frames[r].data = <<BoolItem(TRUE), NoneItem>>
        /\ frames[r].resp.alphabets = << <<"T","R","U","E">>, <<"N","O","N","E">> >>
        /\ frames[r].resp.special_characters = <<>>
        /\ frames[r].resp.sum = <<"0">>
        /\ frames[r].resp.concat_string = <<"E","n","O","n","E","u","R","t">>

\* C9 (as stated): a pass of the loop over an item whose canonicalisation or
\* classification raises appends one entry to special_characters, leaves the
\* sum and the other buckets alone and goes on to the next item, and every
\* request ends in a success response.
C9_FailingItemRecovered ==
    [][\A r \in Requests :
          LET f == frames[r]
              g == frames'[r]
          IN  /\ (/\ f.pc = "loop" /\ f.i <= Len(f.data) /\ g # f
                  /\ classify_item(f.data[f.i]).raised)
                 => /\ g.pc = "loop"
                    /\ g.i = f.i + 1
                    /\ Len(g.special_characters) = Len(f.special_characters) + 1
                    /\ g.total_sum = f.total_sum
                    /\ g.odd_numbers = f.odd_numbers
                    /\ g.even_numbers = f.even_numbers
                    /\ g.alphabets = f.alphabets
              /\ g.pc = "done" => g.resp.is_success]_vars

\* C10: whatever the interleaving, each invocation's locals are those of the
\* same request processed alone, its response is the response it would get
\* alone, and the configuration is never written.
C10_Independent ==
    /\ config = Config
    /\ \A r \in Requests :
          LET f == frames[r]
          IN  /\ f.pc = "loop" => f = AloneAfter(f.data, f.i - 1)
              /\ f.pc = "raised" => f = AloneAfter(f.data, f.i)
              /\ f.pc = "done" =>
                    \E date_suffix \in Dates :
                        /\ f.resp.status_code
                             = AloneResponse(f.data, date_suffix).status_code
                        /\ f.resp = AloneResponse(f.data, date_suffix)

\* C10 witness: request 2 ran from start to end while request 1 was between
\* its first and second item.
C10_Witness ==
    /\ Len(frames[1].data) = 2 /\ frames[1].pc = "loop" /\ frames[1].i = 2
    /\ Len(frames[2].data) = 2 /\ frames[2].pc = "done"
    /\ frames[2].resp.status_code = 200
    /\ frames[1].total_sum # frames[2].total_sum

====
